---- MODULE Spec2Model ----
(***************************************************************************)
(* Model of the input-acquisition core of throughlink                      *)
(* (src/src/input/input.cpp): the GPIO port cache, the raw state reader of *)
(* the three builds, the per-line debounce filter, the lock gate and the   *)
(* stick synthesizer run by input_get_state.                               *)
(***************************************************************************)
EXTENDS Integers, Sequences, FiniteSets, TLC

(***************************************************************************)
(* Bounds of the model.                                                    *)
(***************************************************************************)
\* Largest value of the uptime tick counter explored by Spec.
MaxTick == 6
\* Largest value of the uptime tick counter explored by SpecParse.
ParseMaxTick == 2
\* Number of distinct non-null device handles device_get_binding may return.
NumDevices == 5
\* Number of PL_GPIO entries input_gpio_init walks through in SpecCache.
InitLines == 6
\* Width of the tick counter (uint64_t in the source, scaled down).
TickBits == 3
\* Largest value of the uptime tick counter explored by SpecLock.
LockMaxTick == 4
\* Largest value of the uptime tick counter explored by SpecPair.
PairMaxTick == 4

(***************************************************************************)
(* Program constants.                                                      *)
(***************************************************************************)
\* #define GPIO_PORT_COUNT 4
GPIO_PORT_COUNT == 4
\* constexpr uint64_t transition_time = k_ms_to_cyc_ceil64(5), scaled down.
transition_time == 2
\* Initial values 128 of the stick axes.
STICK_CENTER == 128

MIN_DWELL_TICKS == transition_time

NULL == 0
Devices == 1..NumDevices

RECURSIVE Pow2(_)
Pow2(n) == IF n = 0 THEN 1 ELSE 2 * Pow2(n - 1)

TickModulus == Pow2(TickBits)

(***************************************************************************)
(* The logical input lines (PL_GPIOS) in declaration order, and the        *)
(* mode-select lines (PL_GPIO_OUTPUT_MODES) in declaration order.          *)
(***************************************************************************)
PL_GPIOS ==
  << "button_north", "button_east", "button_south", "button_west",
     "button_l1", "button_l2", "button_l3",
     "button_r1", "button_r2", "button_r3",
     "button_select", "button_start", "button_home", "button_touchpad",
     "stick_up", "stick_down", "stick_right", "stick_left",
     "mode_lock", "mode_ls", "mode_rs" >>

PL_GPIO_OUTPUT_MODES == << "mode_ls", "mode_rs" >>

Lines == { PL_GPIOS[i] : i \in 1..Len(PL_GPIOS) }

\* Buttons copied straight through (input.cpp lines 248-258).
PlainButtons ==
  { "button_north", "button_east", "button_south", "button_west",
    "button_l1", "button_l2", "button_l3",
    "button_r1", "button_r2", "button_r3", "button_touchpad" }

\* Buttons suppressed while locked (input.cpp lines 260-262).
LockedButtons == { "button_select", "button_start", "button_home" }

VARIABLES
  \* port cache (physical GPIO build)
  gpio_devices,       \* [0..GPIO_PORT_COUNT-1 -> handle], NULL when unused
  gpio_device_count,  \* number of cached handles
  gpio_indices,       \* [line position -> cache index], written by init
  line_devices,       \* handle device_get_binding returned for each line so far
  panic,              \* "none", or which PANIC halted the process
  \* debounce, lock gate, pipeline
  button_history,     \* [Lines -> [state, tick]]
  input_locked,       \* Lock State
  display,            \* values passed to display_set_locked: <<>> or <<last>>
  lock_line,          \* PL_GPIO_MODE_LOCK_AVAILABLE of this build
  now,                \* k_uptime_ticks() as read by the last poll
  focus,              \* the lines the environment drives in this run
  polled,             \* input_get_state has returned at least once
  in_deb,             \* *in after the debounce loop of the last poll
  stick,              \* [h, v]: stick_horizontal, stick_vertical of the last poll
  output_mode,        \* output_mode of the last poll
  lock_used,          \* input_locked as read while copying the buttons
  out,                \* *out of the last poll
  \* observers of one line's raw and accepted values over the polls
  raw_val,            \* raw value seen by the last poll
  raw_since,          \* tick of the first poll of the current run of raw_val
  noise_start,        \* tick of the poll that began the current noisy stretch
  noise_changes,      \* changes of the accepted value at later polls of the stretch
  noise_toggles,      \* raw toggles at later polls of the stretch, counted up to 2
  last_change,        \* tick of the last change of the accepted value, -1: none
  \* observer of the lock gate
  last_op,            \* the last operation that ran and what it did to the lock
  \* raw state reader
  build,              \* "none", "external" or "gpio": CONFIG_PASSINGLINK_INPUT_*
  input_queue,        \* CONFIG_PASSINGLINK_INPUT_QUEUE of this build
  concurrent,         \* input_set_raw_state runs in another context than the poll
  input_state,        \* static RawInputState input_state (external build)
  writer,             \* input_set_raw_state in progress: <<>> or <<[value, todo]>>
  prev_set,           \* snapshot passed to the call before the last one
  last_set,           \* snapshot passed to the last call of input_set_raw_state
  raw_read,           \* what input_get_raw_state did in the last poll
  \* the tick source
  uptime              \* ticks since boot at the last poll, not reduced to the width

cache_vars == << gpio_devices, gpio_device_count, gpio_indices, line_devices >>
core_vars == << button_history, input_locked, display, polled, in_deb, stick,
                output_mode, lock_used, out >>
obs_vars == << raw_val, raw_since, noise_start, noise_changes, noise_toggles,
               last_change >>
raw_vars == << build, input_queue, concurrent, input_state, writer, prev_set,
              last_set, raw_read >>
ext_vars == << last_op, raw_vars, uptime >>
vars == << cache_vars, panic, core_vars, lock_line, now, focus, obs_vars,
           ext_vars >>

(***************************************************************************)
(* Port cache: gpio_device_add (input.cpp lines 76-91).  The result is the *)
(* returned index, the cache after the call and whether PANIC was reached. *)
(***************************************************************************)
MinOf(S) == CHOOSE x \in S : \A y \in S : x <= y

\* A mutant of gpio_device_add: the scan for an already cached device is lost.
gpio_device_add_no_scan(device, devices, count) ==
  IF count = GPIO_PORT_COUNT
    THEN [panic |-> TRUE, ret |-> count, devices |-> devices, count |-> count]
    ELSE [panic |-> FALSE, ret |-> count,
          devices |-> [devices EXCEPT ![count] = device], count |-> count + 1]

\* A mutant of gpio_device_add: the capacity check is off by one.
gpio_device_add_late_check(device, devices, count) ==
  LET hits == { i \in 0..(GPIO_PORT_COUNT - 1) : devices[i] = device } IN
  IF hits # {}
    THEN [panic |-> FALSE, ret |-> MinOf(hits), devices |-> devices, count |-> count]
    ELSE IF count = GPIO_PORT_COUNT + 1
      THEN [panic |-> TRUE, ret |-> count, devices |-> devices, count |-> count]
      ELSE [panic |-> FALSE, ret |-> count,
            devices |-> [i \in DOMAIN devices \cup {count} |->
                           IF i = count THEN device ELSE devices[i]],
            count |-> count + 1]

gpio_device_add(device, devices, count) ==
  LET hits == { i \in 0..(GPIO_PORT_COUNT - 1) : devices[i] = device } IN
  IF hits # {}
    THEN \* Skipping already-cached device: the first matching i is returned.
         [panic |-> FALSE, ret |-> MinOf(hits), devices |-> devices, count |-> count]
    ELSE IF count = GPIO_PORT_COUNT
      THEN [panic |-> TRUE, ret |-> count, devices |-> devices, count |-> count]
      ELSE [panic |-> FALSE, ret |-> count,
            devices |-> [devices EXCEPT ![count] = device], count |-> count + 1]

(***************************************************************************)
(* PANIC (panic.h): the process halts; no operation runs after it.         *)
(***************************************************************************)
Running == panic = "none"

PANIC(msg) == panic' = msg

(***************************************************************************)
(* One PL_GPIO expansion of input_gpio_init (input.cpp lines 94-106): bind *)
(* the line's device, configure its pin, register the device.              *)
(***************************************************************************)
GpioInitLine ==
  /\ Running
  /\ Len(line_devices) < InitLines
  /\ \E device \in Devices \cup {NULL}, configured \in BOOLEAN :
       /\ line_devices' = Append(line_devices, device)
       /\ IF device = NULL
            THEN /\ PANIC("failed to find gpio device")
                 /\ UNCHANGED << gpio_devices, gpio_device_count, gpio_indices >>
            ELSE IF ~configured
              THEN /\ PANIC("failed to configure gpio pin")
                   /\ UNCHANGED << gpio_devices, gpio_device_count, gpio_indices >>
              ELSE LET r == gpio_device_add(device, gpio_devices, gpio_device_count) IN
                   IF r.panic
                     THEN /\ PANIC("ran out of cached GPIO device slots")
                          /\ UNCHANGED << gpio_devices, gpio_device_count, gpio_indices >>
                     ELSE /\ panic' = panic
                          /\ gpio_devices' = r.devices
                          /\ gpio_device_count' = r.count
                          /\ gpio_indices' = Append(gpio_indices, r.ret)
  /\ UNCHANGED << core_vars, lock_line, now, focus, obs_vars, ext_vars >>

(***************************************************************************)
(* Debounce: input_debounce (input.cpp lines 211-228).  The subtraction is *)
(* the unsigned one of the source, modulo the width of the counter.  The   *)
(* result is the returned value and the ButtonHistory after the call.      *)
(***************************************************************************)
\* A mutant of TickSub: the difference is not reduced to the width.
TickSub_unreduced(a, b) == a - b

TickSub(a, b) == (a - b) % TickModulus

\* A mutant of input_debounce: an accepted transition does not record its tick.
input_debounce_stale_tick(current_state, bh, current_tick) ==
  IF current_state = bh.state
    THEN [ret |-> current_state, hist |-> bh]
    ELSE IF TickSub(current_tick, bh.tick) < transition_time
      THEN [ret |-> ~current_state, hist |-> bh]
      ELSE [ret |-> current_state,
            hist |-> [state |-> current_state, tick |-> bh.tick]]

\* A mutant of input_debounce: a steady value refreshes the tick of the history.
input_debounce_refresh_tick(current_state, bh, current_tick) ==
  IF current_state = bh.state
    THEN [ret |-> current_state,
          hist |-> [state |-> bh.state, tick |-> current_tick]]
    ELSE IF TickSub(current_tick, bh.tick) < transition_time
      THEN [ret |-> ~current_state, hist |-> bh]
      ELSE [ret |-> current_state,
            hist |-> [state |-> current_state, tick |-> current_tick]]

\* A mutant of input_debounce: the dwell comparison is <= instead of <.
input_debounce_off_by_one(current_state, bh, current_tick) ==
  IF current_state = bh.state
    THEN [ret |-> current_state, hist |-> bh]
    ELSE IF TickSub(current_tick, bh.tick) <= transition_time
      THEN [ret |-> ~current_state, hist |-> bh]
      ELSE [ret |-> current_state,
            hist |-> [state |-> current_state, tick |-> current_tick]]

input_debounce(current_state, bh, current_tick) ==
  IF current_state = bh.state
    THEN [ret |-> current_state, hist |-> bh]
    ELSE LET duration_ticks == TickSub(current_tick, bh.tick) IN
         IF duration_ticks < transition_time
           THEN [ret |-> ~current_state, hist |-> bh]
           ELSE [ret |-> current_state,
                 hist |-> [state |-> current_state, tick |-> current_tick]]

(***************************************************************************)
(* Lock gate: input_set_locked (input.cpp lines 186-194), in a build with  *)
(* CONFIG_PASSINGLINK_DISPLAY.  The result is input_locked and the last     *)
(* value shown by the display after the call, and the number of calls of   *)
(* display_set_locked the call made.                                       *)
(***************************************************************************)
\* A mutant of input_set_locked: the display is notified on every call.
input_set_locked_always_notify(locked, cur_locked, cur_display) ==
  [locked |-> locked, display |-> << locked >>, calls |-> 1]

input_set_locked(locked, cur_locked, cur_display) ==
  [locked |-> locked,
   display |-> IF locked # cur_locked THEN << locked >> ELSE cur_display,
   calls |-> IF locked # cur_locked THEN 1 ELSE 0]

\* A mutant of parse_mode_lock: the mode-lock line is fed to the lock gate in
\* every build.
parse_mode_lock_every_build(has_lock_line, mode_lock, cur_locked, cur_display) ==
  input_set_locked(mode_lock, cur_locked, cur_display)

\* A mutant of parse_mode_lock: the mode-lock line is never fed to the lock
\* gate.
parse_mode_lock_never(has_lock_line, mode_lock, cur_locked, cur_display) ==
  [locked |-> cur_locked, display |-> cur_display, calls |-> 0]

\* input_parse feeding the lock gate (lines 243-245): only a build with
\* PL_GPIO_MODE_LOCK_AVAILABLE calls input_set_locked(in->mode_lock).
parse_mode_lock(has_lock_line, mode_lock, cur_locked, cur_display) ==
  IF has_lock_line
    THEN input_set_locked(mode_lock, cur_locked, cur_display)
    ELSE [locked |-> cur_locked, display |-> cur_display, calls |-> 0]

(***************************************************************************)
(* stick_state_from_x_y (input.cpp lines 146-168).                         *)
(***************************************************************************)
\* A mutant of stick_state_from_x_y: the two diagonal tests of the east side
\* are exchanged.
stick_state_from_x_y_swapped(horizontal, vertical) ==
  IF vertical = -1 /\ horizontal = 0 THEN "North"
  ELSE IF vertical = 1 /\ horizontal = 1 THEN "NorthEast"
  ELSE IF vertical = 0 /\ horizontal = 1 THEN "East"
  ELSE IF vertical = -1 /\ horizontal = 1 THEN "SouthEast"
  ELSE IF vertical = 1 /\ horizontal = 0 THEN "South"
  ELSE IF vertical = 1 /\ horizontal = -1 THEN "SouthWest"
  ELSE IF vertical = 0 /\ horizontal = -1 THEN "West"
  ELSE IF vertical = -1 /\ horizontal = -1 THEN "NorthWest"
  ELSE "Neutral"

stick_state_from_x_y(horizontal, vertical) ==
  IF vertical = -1 /\ horizontal = 0 THEN "North"
  ELSE IF vertical = -1 /\ horizontal = 1 THEN "NorthEast"
  ELSE IF vertical = 0 /\ horizontal = 1 THEN "East"
  ELSE IF vertical = 1 /\ horizontal = 1 THEN "SouthEast"
  ELSE IF vertical = 1 /\ horizontal = 0 THEN "South"
  ELSE IF vertical = 1 /\ horizontal = -1 THEN "SouthWest"
  ELSE IF vertical = 0 /\ horizontal = -1 THEN "West"
  ELSE IF vertical = -1 /\ horizontal = -1 THEN "NorthWest"
  ELSE "Neutral"

(***************************************************************************)
(* stick_scale (input.cpp lines 171-179); the results are 0x00, 0x80, 0xFF.*)
(***************************************************************************)
\* A mutant of stick_scale: the positive end is 127 (the signed maximum).
stick_scale_signed_max(sign) ==
  IF sign < 0 THEN 0 ELSE IF sign = 0 THEN 128 ELSE 127

stick_scale(sign) ==
  IF sign < 0 THEN 0 ELSE IF sign = 0 THEN 128 ELSE 255

(***************************************************************************)
(* input_parse after the debounce loop (input.cpp lines 247-321), as       *)
(* operators over the debounced *in.                                       *)
(***************************************************************************)
\* A mutant of assign_buttons: button_home is copied without the lock test.
assign_buttons_home_unlocked(in, locked) ==
  [b \in PlainButtons \cup LockedButtons |->
     IF b \in PlainButtons \/ b = "button_home" THEN in[b]
     ELSE IF locked THEN FALSE ELSE in[b]]

\* Assign buttons (lines 247-262).
assign_buttons(in, locked) ==
  [b \in PlainButtons \cup LockedButtons |->
     IF b \in PlainButtons THEN in[b]
     ELSE IF locked THEN FALSE ELSE in[b]]

\* A mutant of stick_intent: up wins over down when both are asserted.
stick_intent_up_priority(in) ==
  [v |-> IF in["stick_up"] THEN -1 ELSE IF in["stick_down"] THEN 1 ELSE 0,
   h |-> (IF in["stick_right"] THEN 1 ELSE 0) + (IF in["stick_left"] THEN -1 ELSE 0)]

\* Assign stick (lines 264-281): stick_vertical and stick_horizontal.
stick_intent(in) ==
  [v |-> (IF in["stick_up"] THEN -1 ELSE 0) + (IF in["stick_down"] THEN 1 ELSE 0),
   h |-> (IF in["stick_right"] THEN 1 ELSE 0) + (IF in["stick_left"] THEN -1 ELSE 0)]

\* A mutant of scan_output_modes: the chain has lost its else, so the last
\* asserted mode-select line wins.
RECURSIVE scan_output_modes_last_wins(_, _)
scan_output_modes_last_wins(in, i) ==
  IF i > Len(PL_GPIO_OUTPUT_MODES) THEN "mode_dpad"
  ELSE LET rest == scan_output_modes_last_wins(in, i + 1) IN
       IF rest # "mode_dpad" THEN rest
       ELSE IF in[PL_GPIO_OUTPUT_MODES[i]] THEN PL_GPIO_OUTPUT_MODES[i]
       ELSE "mode_dpad"

\* The else-if chain over PL_GPIO_OUTPUT_MODES (lines 289-297).
RECURSIVE scan_output_modes(_, _)
scan_output_modes(in, i) ==
  IF i > Len(PL_GPIO_OUTPUT_MODES) THEN "mode_dpad"
  ELSE IF in[PL_GPIO_OUTPUT_MODES[i]] THEN PL_GPIO_OUTPUT_MODES[i]
  ELSE scan_output_modes(in, i + 1)

select_output_mode(in) == scan_output_modes(in, 1)

\* A mutant of assign_stick: the digital pad is filled in every mode.
assign_stick_dpad_always(mode, h, v) ==
  [dpad |-> stick_state_from_x_y(h, v),
   left_stick_x |-> IF mode = "mode_ls" THEN stick_scale(h) ELSE STICK_CENTER,
   left_stick_y |-> IF mode = "mode_ls" THEN stick_scale(v) ELSE STICK_CENTER,
   right_stick_x |-> IF mode = "mode_rs" THEN stick_scale(h) ELSE STICK_CENTER,
   right_stick_y |-> IF mode = "mode_rs" THEN stick_scale(v) ELSE STICK_CENTER]

\* The neutral defaults and the switch on output_mode (lines 299-319).
assign_stick(mode, h, v) ==
  [dpad |-> IF mode = "mode_dpad" THEN stick_state_from_x_y(h, v) ELSE "Neutral",
   left_stick_x |-> IF mode = "mode_ls" THEN stick_scale(h) ELSE STICK_CENTER,
   left_stick_y |-> IF mode = "mode_ls" THEN stick_scale(v) ELSE STICK_CENTER,
   right_stick_x |-> IF mode = "mode_rs" THEN stick_scale(h) ELSE STICK_CENTER,
   right_stick_y |-> IF mode = "mode_rs" THEN stick_scale(v) ELSE STICK_CENTER]

(***************************************************************************)
(* input_get_state (input.cpp lines 324-327): the raw snapshot `raw` read  *)
(* by input_get_raw_state, then input_parse (lines 230-322) at the tick    *)
(* current_tick returned by k_uptime_ticks().                              *)
(***************************************************************************)
RawOf(S) == [l \in Lines |-> l \in S]

NeutralOut ==
  [buttons |-> [b \in PlainButtons \cup LockedButtons |-> FALSE],
   dpad |-> "Neutral",
   left_stick_x |-> STICK_CENTER, left_stick_y |-> STICK_CENTER,
   right_stick_x |-> STICK_CENTER, right_stick_y |-> STICK_CENTER]

input_get_state(raw, current_tick) ==
  /\ Running
  /\ LET deb == [l \in Lines |->
                   input_debounce(raw[l], button_history[l], current_tick)]
         in == [l \in Lines |-> deb[l].ret]
         lk == parse_mode_lock(lock_line, in["mode_lock"], input_locked, display)
         st == stick_intent(in)
         mode == select_output_mode(in)
         sticks == assign_stick(mode, st.h, st.v)
     IN /\ button_history' = [l \in Lines |-> deb[l].hist]
        /\ in_deb' = in
        /\ input_locked' = lk.locked
        /\ display' = lk.display
        /\ lock_used' = lk.locked
        /\ stick' = st
        /\ output_mode' = mode
        /\ out' = [buttons |-> assign_buttons(in, lk.locked),
                   dpad |-> sticks.dpad,
                   left_stick_x |-> sticks.left_stick_x,
                   left_stick_y |-> sticks.left_stick_y,
                   right_stick_x |-> sticks.right_stick_x,
                   right_stick_y |-> sticks.right_stick_y]
  /\ now' = current_tick
  /\ polled' = TRUE
  /\ UNCHANGED << cache_vars, panic, lock_line, focus >>

(***************************************************************************)
(* Observers of a poll: for every line the run of its raw value and the    *)
(* changes of the value input_debounce returns (in_deb before and after).  *)
(* A noisy stretch lasts while every raw run is replaced less than         *)
(* MIN_DWELL_TICKS after it began; a poll that finds the current run that  *)
(* old begins a new stretch.                                               *)
(***************************************************************************)
Observe(raw, current_tick) ==
  LET changed(l) == in_deb'[l] # in_deb[l]
      run_long(l) == current_tick - raw_since[l] >= MIN_DWELL_TICKS
  IN /\ raw_val' = raw
     /\ raw_since' = [l \in Lines |->
                        IF raw[l] = raw_val[l] THEN raw_since[l] ELSE current_tick]
     /\ noise_start' = [l \in Lines |->
                          IF run_long(l) THEN current_tick ELSE noise_start[l]]
     /\ noise_changes' = [l \in Lines |->
                            IF run_long(l) THEN 0
                            ELSE noise_changes[l] + (IF changed(l) THEN 1 ELSE 0)]
     /\ noise_toggles' = [l \in Lines |->
                            IF run_long(l) THEN 0
                            ELSE IF raw[l] # raw_val[l] /\ noise_toggles[l] < 2
                              THEN noise_toggles[l] + 1
                              ELSE noise_toggles[l]]
     /\ last_change' = [l \in Lines |->
                          IF changed(l) THEN current_tick ELSE last_change[l]]

\* One poll cycle with the observers attached.
Poll ==
  \E current_tick \in now..MaxTick, S \in SUBSET focus :
    /\ input_get_state(RawOf(S), current_tick)
    /\ Observe(RawOf(S), current_tick)
    /\ UNCHANGED ext_vars

\* One poll cycle of the pipeline alone.
PollParse ==
  \E current_tick \in now..ParseMaxTick, S \in SUBSET focus :
    /\ input_get_state(RawOf(S), current_tick)
    /\ UNCHANGED << obs_vars, ext_vars >>

\* input_set_locked(locked) called by configuration or debug tooling.
SetLockedCall(locked) ==
  /\ Running
  /\ LET lk == input_set_locked(locked, input_locked, display) IN
       /\ input_locked' = lk.locked
       /\ display' = lk.display
  /\ UNCHANGED << cache_vars, panic, button_history, polled, in_deb, stick,
                  output_mode, lock_used, out, lock_line, now, focus >>

SetLocked ==
  \E locked \in BOOLEAN :
    /\ SetLockedCall(locked)
    /\ UNCHANGED << obs_vars, ext_vars >>

(***************************************************************************)
(* Observer of the lock gate: which operation ran last, whether it called  *)
(* input_set_locked and with which argument, input_locked before it, and   *)
(* the number of calls of display_set_locked it made.                      *)
(***************************************************************************)
NoOp == [kind |-> "none", fed |-> FALSE, arg |-> FALSE, before |-> FALSE,
         calls |-> 0]

\* One poll cycle with the observer of the lock gate attached.
PollLock ==
  \E current_tick \in now..LockMaxTick, S \in SUBSET focus :
    /\ input_get_state(RawOf(S), current_tick)
    /\ last_op' = [kind |-> "poll", fed |-> lock_line,
                   arg |-> in_deb'["mode_lock"], before |-> input_locked,
                   calls |-> parse_mode_lock(lock_line, in_deb'["mode_lock"],
                                             input_locked, display).calls]
    /\ UNCHANGED << obs_vars, raw_vars, uptime >>

\* input_set_locked called by tooling, with the observer attached.
SetLockedObserved ==
  \E locked \in BOOLEAN :
    /\ SetLockedCall(locked)
    /\ last_op' = [kind |-> "set_locked", fed |-> TRUE, arg |-> locked,
                   before |-> input_locked,
                   calls |-> input_set_locked(locked, input_locked, display).calls]
    /\ UNCHANGED << obs_vars, raw_vars, uptime >>

\* One poll cycle observed through the raw value of each line and the tick of
\* the last change of its accepted value.
PollPair ==
  \E current_tick \in now..PairMaxTick, S \in SUBSET focus :
    /\ input_get_state(RawOf(S), current_tick)
    /\ raw_val' = RawOf(S)
    /\ last_change' = [l \in Lines |->
                         IF in_deb'[l] # in_deb[l] THEN current_tick
                                                  ELSE last_change[l]]
    /\ UNCHANGED << raw_since, noise_start, noise_changes, noise_toggles,
                    ext_vars >>

(***************************************************************************)
(* The tick counter over its wraparound: k_uptime_ticks() is the time      *)
(* since boot reduced to the width of the counter.  The observers hold the *)
(* raw value of each line and the time since boot, not reduced, of the     *)
(* last change of its accepted value.                                      *)
(***************************************************************************)
k_uptime_ticks(t) == t % TickModulus

\* Largest time since boot explored by SpecWrap: past one wraparound.
WrapMaxTick == TickModulus + 2 * transition_time

PollWrap ==
  \E t \in uptime..WrapMaxTick, S \in SUBSET focus :
    /\ input_get_state(RawOf(S), k_uptime_ticks(t))
    /\ uptime' = t
    /\ raw_val' = RawOf(S)
    /\ last_change' = [l \in Lines |->
                         IF in_deb'[l] # in_deb[l] THEN t ELSE last_change[l]]
    /\ UNCHANGED << raw_since, noise_start, noise_changes, noise_toggles, last_op,
                    raw_vars >>

(***************************************************************************)
(* Raw state reader.  The wiring of the lines (PL_GPIO_LABEL, PL_GPIO_PIN, *)
(* PL_GPIO_FLAGS of each PL_GPIO entry) comes from the board configuration:*)
(* here three ports, the lines dealt to them in turn, every second line    *)
(* active low.                                                             *)
(***************************************************************************)
LinePos == [l \in Lines |-> CHOOSE i \in 1..Len(PL_GPIOS) : PL_GPIOS[i] = l]

PortLabels == << 2, 1, 3 >>

PL_GPIO_LABEL == [l \in Lines |-> PortLabels[1 + ((LinePos[l] - 1) % Len(PortLabels))]]

PL_GPIO_PIN == [l \in Lines |-> (LinePos[l] - 1) \div Len(PortLabels)]

PL_GPIO_ACTIVE_LOW == [l \in Lines |-> LinePos[l] % 2 = 0]

\* One PL_GPIO expansion of input_gpio_init (lines 94-106) on the board: the
\* device of the next line is bound, its pin configured, the device cached.
GpioInitWired ==
  /\ Running
  /\ build = "gpio"
  /\ Len(gpio_indices) < Len(PL_GPIOS)
  /\ LET device == PL_GPIO_LABEL[PL_GPIOS[Len(gpio_indices) + 1]]
         r == gpio_device_add(device, gpio_devices, gpio_device_count)
     IN /\ line_devices' = Append(line_devices, device)
        /\ IF r.panic
             THEN /\ PANIC("ran out of cached GPIO device slots")
                  /\ UNCHANGED << gpio_devices, gpio_device_count, gpio_indices >>
             ELSE /\ panic' = panic
                  /\ gpio_devices' = r.devices
                  /\ gpio_device_count' = r.count
                  /\ gpio_indices' = Append(gpio_indices, r.ret)
  /\ UNCHANGED << core_vars, lock_line, now, focus, obs_vars, ext_vars >>

\* The levels of the pins of port `device` when exactly the lines of E are
\* asserted: the set of the pins that read high.
PortWord(device, E) ==
  { PL_GPIO_PIN[l] : l \in { k \in Lines : /\ PL_GPIO_LABEL[k] = device
                                           /\ (k \in E) # PL_GPIO_ACTIVE_LOW[k] } }

\* One PL_GPIO expansion of the physical read (lines 128-137).
gpio_line_value(port_value, pin, active_low) ==
  LET value == pin \in port_value IN
  IF active_low THEN ~value ELSE value

\* A mutant of gpio_read_ports: the result of gpio_port_get_raw is ignored.
gpio_read_ports_unchecked(devs, count, failing) ==
  [panic |-> FALSE,
   reads |-> [i \in 0..(GPIO_PORT_COUNT - 1) |-> IF i < count THEN 1 ELSE 0]]

\* The loop of batched reads (lines 121-126): the ports are read in cache
\* order and the first gpio_port_get_raw that fails reaches PANIC.  The
\* result is whether PANIC was reached and how often each port was read.
gpio_read_ports(devs, count, failing) ==
  LET faults == { i \in 0..(count - 1) : devs[i] \in failing }
      stop == IF faults = {} THEN count ELSE MinOf(faults)
  IN [panic |-> faults # {},
      reads |-> [i \in 0..(GPIO_PORT_COUNT - 1) |->
                   IF i < count /\ i <= stop THEN 1 ELSE 0]]

NoReads == [i \in 0..(GPIO_PORT_COUNT - 1) |-> 0]

\* A mutant of input_get_raw_state: the input queue is not consulted.
input_get_raw_state_no_queue(bld, has_queue, queued, held, E, failing, devs, count, indices) ==
  IF bld = "none"
    THEN [panic |-> FALSE, source |-> "zero", raw |-> RawOf({}), reads |-> NoReads]
  ELSE IF bld = "external"
    THEN [panic |-> FALSE, source |-> "held", raw |-> held, reads |-> NoReads]
  ELSE LET rd == gpio_read_ports(devs, count, failing)
           port_values == [i \in 0..(count - 1) |-> PortWord(devs[i], E)]
       IN [panic |-> rd.panic, source |-> "gpio", reads |-> rd.reads,
           raw |-> [l \in Lines |->
                      gpio_line_value(port_values[indices[LinePos[l]]],
                                      PL_GPIO_PIN[l], PL_GPIO_ACTIVE_LOW[l])]]

\* input_get_raw_state of the three builds (lines 32-43, 51-61, 111-142).
\* queued is what input_queue_get_state() returns, <<>> or <<snapshot>>; held
\* is input_state; E and failing are the environment of the physical read:
\* the lines asserted and the ports whose gpio_port_get_raw fails.
input_get_raw_state(bld, has_queue, queued, held, E, failing, devs, count, indices) ==
  IF has_queue /\ queued # << >>
    THEN [panic |-> FALSE, source |-> "queue", raw |-> queued[1], reads |-> NoReads]
  ELSE IF bld = "none"
    THEN [panic |-> FALSE, source |-> "zero", raw |-> RawOf({}), reads |-> NoReads]
  ELSE IF bld = "external"
    THEN [panic |-> FALSE, source |-> "held", raw |-> held, reads |-> NoReads]
  ELSE LET rd == gpio_read_ports(devs, count, failing)
           port_values == [i \in 0..(count - 1) |-> PortWord(devs[i], E)]
       IN [panic |-> rd.panic, source |-> "gpio", reads |-> rd.reads,
           raw |-> [l \in Lines |->
                      gpio_line_value(port_values[indices[LinePos[l]]],
                                      PL_GPIO_PIN[l], PL_GPIO_ACTIVE_LOW[l])]]

NoRead == [kind |-> "none", source |-> "none", queued |-> << >>, E |-> {},
           failing |-> {}, reads |-> NoReads, raw |-> RawOf({}),
           prev_set |-> RawOf({}), last_set |-> RawOf({})]

CachedDevices == { gpio_devices[i] : i \in 0..(gpio_device_count - 1) }

\* One poll cycle with the raw state reader: input_get_state (lines 324-327)
\* calls input_get_raw_state, which may reach PANIC, and then input_parse.
\* In a physical build input_init has returned before the first poll.  While
\* input_set_raw_state runs in the context of the poll, no poll runs inside it.
\* The levels and the faults of the ports are drawn for the cycles in which
\* the queue gives nothing; in the others they are idle.
PollRaw ==
  /\ Running
  /\ build = "gpio" => Len(gpio_indices) = Len(PL_GPIOS)
  /\ concurrent \/ writer = << >>
  /\ \E current_tick \in now..ParseMaxTick,
        queued \in (IF input_queue
                      THEN { << RawOf(S) >> : S \in SUBSET focus } \cup { << >> }
                      ELSE { << >> }),
        E \in (IF build = "gpio" THEN SUBSET focus ELSE { {} }),
        failing \in SUBSET CachedDevices :
       /\ queued # << >> => (E = {} /\ failing = {})
       /\ LET r == input_get_raw_state(build, input_queue, queued, input_state, E,
                                       failing, gpio_devices, gpio_device_count,
                                       gpio_indices)
          IN /\ raw_read' = [kind |-> "poll", source |-> r.source,
                             queued |-> queued, E |-> E, failing |-> failing,
                             reads |-> r.reads, raw |-> r.raw,
                             prev_set |-> prev_set, last_set |-> last_set]
             /\ IF r.panic
                  THEN /\ PANIC("failed to get gpio values")
                       /\ UNCHANGED << cache_vars, core_vars, lock_line, now,
                                       focus >>
                  ELSE input_get_state(r.raw, current_tick)
  /\ UNCHANGED << obs_vars, last_op, build, input_queue, concurrent, input_state,
                  writer, prev_set, last_set, uptime >>

\* input_set_raw_state (lines 63-65) is entered with *in = a snapshot.
SetRawBegin ==
  /\ Running
  /\ build = "external"
  /\ writer = << >>
  /\ \E S \in SUBSET focus :
       /\ writer' = << [value |-> RawOf(S), todo |-> focus] >>
       /\ last_set' = RawOf(S)
  /\ prev_set' = last_set
  /\ UNCHANGED << cache_vars, panic, core_vars, lock_line, now, focus, obs_vars,
                  last_op, build, input_queue, concurrent, input_state, raw_read,
                  uptime >>

\* input_state = *in (line 64): a plain structure copy, which the build may
\* emit as one store or as several; some of the fields not yet copied are
\* copied.  The fields outside focus hold the same value in every snapshot;
\* the call returns when the last field of focus is copied.
SetRawCopy ==
  /\ Running
  /\ writer # << >>
  /\ \E C \in (SUBSET writer[1].todo) \ { {} } :
       /\ input_state' = [l \in Lines |->
                            IF l \in C THEN writer[1].value[l] ELSE input_state[l]]
       /\ writer' = IF C = writer[1].todo
                      THEN << >>
                      ELSE << [writer[1] EXCEPT !.todo = @ \ C] >>
  /\ UNCHANGED << cache_vars, panic, core_vars, lock_line, now, focus, obs_vars,
                  last_op, build, input_queue, concurrent, prev_set, last_set,
                  raw_read, uptime >>

(***************************************************************************)
(* Initial states: zero-initialised statics, nothing polled yet.           *)
(***************************************************************************)
InitStatics ==
  /\ panic = "none"
  /\ button_history = [l \in Lines |-> [state |-> FALSE, tick |-> 0]]
  /\ input_locked = FALSE
  /\ display = << >>
  /\ now = 0
  /\ polled = FALSE
  /\ in_deb = [l \in Lines |-> FALSE]
  /\ stick = [v |-> 0, h |-> 0]
  /\ output_mode = "mode_dpad"
  /\ lock_used = FALSE
  /\ out = NeutralOut
  /\ raw_val = [l \in Lines |-> FALSE]
  /\ raw_since = [l \in Lines |-> 0]
  /\ noise_start = [l \in Lines |-> 0]
  /\ noise_changes = [l \in Lines |-> 0]
  /\ noise_toggles = [l \in Lines |-> 0]
  /\ last_change = [l \in Lines |-> -1]
  /\ last_op = NoOp
  /\ input_state = RawOf({})
  /\ writer = << >>
  /\ prev_set = RawOf({})
  /\ last_set = RawOf({})
  /\ raw_read = NoRead
  /\ uptime = 0

\* Before input_gpio_init has run, or in a build where it is empty.
InitCommon ==
  /\ gpio_devices = [i \in 0..(GPIO_PORT_COUNT - 1) |-> NULL]
  /\ gpio_device_count = 0
  /\ gpio_indices = << >>
  /\ line_devices = << >>
  /\ concurrent = FALSE
  /\ InitStatics

\* A build without physical input whose snapshots come from the input queue.
QueueBuild ==
  /\ build = "none"
  /\ input_queue = TRUE

\* The lines driven in a run of Spec: each line alone.
DebounceGroups == { {l} : l \in Lines }

Directions == { "stick_up", "stick_down", "stick_left", "stick_right" }

\* The lines driven in a run of SpecParse.
ParseGroups ==
  { Directions \cup {"mode_ls"},
    Directions \cup {"mode_rs"},
    { "mode_ls", "mode_rs", "stick_up", "stick_right" },
    { "mode_lock", "button_select", "button_start", "button_home" },
    { "mode_lock", "button_north", "button_east", "button_south", "button_west" },
    { "mode_lock", "button_l1", "button_l2", "button_l3", "button_touchpad" },
    { "mode_lock", "button_r1", "button_r2", "button_r3", "button_home" } }

Init ==
  /\ InitCommon
  /\ QueueBuild
  /\ lock_line \in BOOLEAN
  /\ focus \in DebounceGroups

Next == Poll

Spec == Init /\ [][Next]_vars

InitParse ==
  /\ InitCommon
  /\ QueueBuild
  /\ lock_line \in BOOLEAN
  /\ focus \in ParseGroups

NextParse == PollParse \/ SetLocked

SpecParse == InitParse /\ [][NextParse]_vars

InitCache ==
  /\ InitCommon
  /\ build = "gpio"
  /\ input_queue = FALSE
  /\ lock_line = FALSE
  /\ focus = {}

NextCache == GpioInitLine

SpecCache == InitCache /\ [][NextCache]_vars

\* The lock gate: polls of the mode-lock line interleaved with calls of
\* input_set_locked by tooling.
InitLock ==
  /\ InitCommon
  /\ QueueBuild
  /\ lock_line \in BOOLEAN
  /\ focus = { "mode_lock" }

NextLock == PollLock \/ SetLockedObserved

SpecLock == InitLock /\ [][NextLock]_vars

\* The lines driven in a run of SpecPair: two lines at a time.
PairGroups ==
  { { "stick_up", "stick_right" },
    { "stick_left", "mode_rs" },
    { "mode_lock", "button_start" },
    { "button_south", "button_r1" } }

\* The whole pipeline over two lines polled together.
InitPair ==
  /\ InitCommon
  /\ QueueBuild
  /\ lock_line \in BOOLEAN
  /\ focus \in PairGroups

NextPair == PollPair

SpecPair == InitPair /\ [][NextPair]_vars

\* The debounce filter while the tick counter wraps around.
InitWrap ==
  /\ InitCommon
  /\ QueueBuild
  /\ lock_line = FALSE
  /\ focus \in { { "button_south" }, { "mode_rs" } }

NextWrap == PollWrap

SpecWrap == InitWrap /\ [][NextWrap]_vars

\* The lines driven in a run of SpecRaw and SpecRace: one active-high and one
\* active-low line of different ports.
RawFocus == { "stick_up", "stick_down" }

\* The state before input_init, whose input_gpio_init is empty in the builds
\* without physical input.
InitRawBuild ==
  /\ InitStatics
  /\ lock_line = FALSE
  /\ focus = RawFocus
  /\ gpio_devices = [i \in 0..(GPIO_PORT_COUNT - 1) |-> NULL]
  /\ gpio_device_count = 0
  /\ gpio_indices = << >>
  /\ line_devices = << >>

\* The raw state reader of every build, input_set_raw_state called from the
\* context of the poll.
InitRaw ==
  /\ build \in { "none", "external", "gpio" }
  /\ input_queue \in BOOLEAN
  /\ concurrent = FALSE
  /\ InitRawBuild

NextRaw == GpioInitWired \/ PollRaw \/ SetRawBegin \/ SetRawCopy

SpecRaw == InitRaw /\ [][NextRaw]_vars

\* The external build with input_set_raw_state called from another execution
\* context than the poll.
InitRace ==
  /\ build = "external"
  /\ input_queue = FALSE
  /\ concurrent = TRUE
  /\ InitRawBuild

NextRace == PollRaw \/ SetRawBegin \/ SetRawCopy

SpecRace == InitRace /\ [][NextRace]_vars

(***************************************************************************)
(* Claims about the debounce filter, checked under Spec.                   *)
(***************************************************************************)

\* C1: for every line, two consecutive changes of the accepted (debounced)
\* value are at least MIN_DWELL_TICKS ticks apart: a poll that changes the
\* value returned for a line runs at least MIN_DWELL_TICKS after the poll
\* that changed it last.
C1_ChangesDwellApart ==
  [][\A l \in Lines :
       (in_deb'[l] # in_deb[l] /\ last_change[l] # -1)
         => now' - last_change[l] >= MIN_DWELL_TICKS]_vars

\* C1 witness: a line whose accepted value changed, and changed again exactly
\* MIN_DWELL_TICKS later.
C1_Witness ==
  \E l \in Lines :
    /\ last_change[l] = 2 * MIN_DWELL_TICKS
    /\ in_deb[l] = FALSE
    /\ button_history[l].tick = last_change[l]

\* C2 as stated: while the raw input toggles faster than the minimum dwell
\* time (every raw run of the stretch is replaced less than MIN_DWELL_TICKS
\* after it began, and it has toggled at least twice), the accepted value
\* never changes.
C2_NeverChangesUnderNoise ==
  \A l \in Lines : noise_toggles[l] >= 2 => noise_changes[l] = 0

\* C2 amended: while the raw input toggles faster than the minimum dwell
\* time, the accepted value changes at most once per MIN_DWELL_TICKS window:
\* over the polls that follow the first poll of a noisy stretch, d ticks
\* long so far, it changes at most 1 + d / MIN_DWELL_TICKS times (rounded
\* down).
C2_NoiseChangesBounded ==
  \A l \in Lines :
    noise_changes[l] <= 1 + ((now - noise_start[l]) \div MIN_DWELL_TICKS)

\* C2 witness: a noisy stretch shorter than MIN_DWELL_TICKS in which the
\* accepted value has changed once, and one of at least MIN_DWELL_TICKS in
\* which it has changed twice.
C2_Witness ==
  \E l \in Lines :
    /\ noise_changes[l] = 2
    /\ noise_toggles[l] = 2
    /\ now - noise_start[l] < 2 * MIN_DWELL_TICKS
    /\ raw_since[l] > noise_start[l]

\* C3: for every line, at a poll whose tick is MIN_DWELL_TICKS or more past
\* the first poll that saw the current raw value, the accepted value equals
\* the raw value (so it equals it at the first such poll and at every later
\* poll for as long as the raw value is held).
C3_TracksHeldValue ==
  \A l \in Lines :
    (polled /\ now - raw_since[l] >= MIN_DWELL_TICKS) => in_deb[l] = raw_val[l]

\* C3 witness: a new raw value that was rejected when first seen and is the
\* accepted value at the poll exactly MIN_DWELL_TICKS later.
C3_Witness ==
  \E l \in Lines :
    /\ polled
    /\ raw_val[l] = TRUE
    /\ in_deb[l] = TRUE
    /\ now - raw_since[l] = MIN_DWELL_TICKS
    /\ last_change[l] = now
    /\ raw_since[l] > 0

(***************************************************************************)
(* Claims about the port cache, checked under SpecCache.                   *)
(***************************************************************************)
\* The lines whose device was registered (gpio_device_add returned).
Registered == 1..Len(gpio_indices)

\* The first line bound to the device of line k.
FirstLineOf(k) == MinOf({ j \in 1..k : line_devices[j] = line_devices[k] })

\* C5: port-cache idempotence: registering a handle that is already cached
\* returns the index it was first given and does not grow the cache: the
\* index stored for a line holds the line's handle, lines bound to the same
\* handle have the same index, the cache holds as many handles as distinct
\* handles were registered, and slots 0..count-1 are pairwise distinct.
C5_CacheIdempotent ==
  /\ \A k \in Registered :
       /\ gpio_indices[k] \in 0..(gpio_device_count - 1)
       /\ gpio_devices[gpio_indices[k]] = line_devices[k]
       /\ gpio_indices[k] = gpio_indices[FirstLineOf(k)]
  /\ gpio_device_count = Cardinality({ line_devices[k] : k \in Registered })
  /\ \A i, j \in 0..(gpio_device_count - 1) :
       i # j => gpio_devices[i] # gpio_devices[j]

\* C5 witness: the handle registered first is registered again after two
\* others, gets index 0 again, and the cache holds three handles.
C5_Witness ==
  /\ Len(gpio_indices) = 4
  /\ line_devices[4] = line_devices[1]
  /\ gpio_indices[4] = 0
  /\ gpio_device_count = 3

\* C6: port-cache capacity: distinct handles get the indices 0, 1, ... in
\* registration order; the count never exceeds GPIO_PORT_COUNT and nothing
\* is stored outside slots 0..GPIO_PORT_COUNT-1; registering a further
\* distinct handle when GPIO_PORT_COUNT are cached halts the process; a
\* handle that is cached never causes that halt.
C6_CacheCapacity ==
  /\ gpio_device_count <= GPIO_PORT_COUNT
  /\ DOMAIN gpio_devices = 0..(GPIO_PORT_COUNT - 1)
  /\ \A i \in gpio_device_count..(GPIO_PORT_COUNT - 1) : gpio_devices[i] = NULL
  /\ \A k \in Registered :
       gpio_indices[k] =
         Cardinality({ line_devices[j] : j \in 1..(FirstLineOf(k) - 1) })
  /\ Cardinality({ line_devices[k] : k \in 1..Len(line_devices) } \ {NULL})
         > GPIO_PORT_COUNT
       => panic # "none"
  /\ panic = "ran out of cached GPIO device slots"
       => /\ gpio_device_count = GPIO_PORT_COUNT
          /\ \A i \in 0..(GPIO_PORT_COUNT - 1) :
               gpio_devices[i] # line_devices[Len(line_devices)]

\* C6 witness: with GPIO_PORT_COUNT handles cached, a cached handle was
\* registered again and a further distinct handle then halted the process.
C6_Witness ==
  /\ panic = "ran out of cached GPIO device slots"
  /\ Len(gpio_indices) = GPIO_PORT_COUNT + 1
  /\ gpio_indices[GPIO_PORT_COUNT + 1] = GPIO_PORT_COUNT - 1
  /\ \A i \in 0..(GPIO_PORT_COUNT - 1) : gpio_devices[i] = i + 1

(***************************************************************************)
(* Claims about one poll cycle's output, checked under SpecParse.          *)
(***************************************************************************)
\* C4: in every poll output, with Lock State true when the buttons are
\* copied (after the debounced lock line, if the build has one, was given
\* to input_set_locked), button_select, button_start and button_home are
\* false; with Lock State false they equal their debounced values; the
\* eleven other buttons always equal their debounced values.
C4_LockSuppression ==
  polled =>
    /\ lock_line => lock_used = in_deb["mode_lock"]
    /\ \A b \in { "button_select", "button_start", "button_home" } :
         out.buttons[b] = (IF lock_used THEN FALSE ELSE in_deb[b])
    /\ \A b \in { "button_north", "button_east", "button_south", "button_west",
                  "button_l1", "button_l2", "button_l3", "button_r1",
                  "button_r2", "button_r3", "button_touchpad" } :
         out.buttons[b] = in_deb[b]

\* C4 witness: a locked cycle in which button_home and button_r1 are both
\* debounced true: button_home is false in the output, button_r1 true.
C4_Witness ==
  /\ polled
  /\ lock_used
  /\ in_deb["button_home"]
  /\ in_deb["button_r1"]
  /\ ~out.buttons["button_home"]
  /\ out.buttons["button_r1"]

\* C7: SOCD neutrality: up and down both asserted give vertical intent 0,
\* left and right both asserted give horizontal intent 0, whatever the other
\* axis; otherwise up alone gives -1, down alone +1, left alone -1, right
\* alone +1.
C7_SOCDNeutral ==
  polled =>
    /\ stick.v = (IF in_deb["stick_up"] = in_deb["stick_down"] THEN 0
                  ELSE IF in_deb["stick_up"] THEN -1 ELSE 1)
    /\ stick.h = (IF in_deb["stick_left"] = in_deb["stick_right"] THEN 0
                  ELSE IF in_deb["stick_left"] THEN -1 ELSE 1)

\* C7 witness: up, down and left asserted: vertical 0, horizontal -1.
C7_Witness ==
  /\ polled
  /\ in_deb["stick_up"] /\ in_deb["stick_down"]
  /\ in_deb["stick_left"] /\ ~in_deb["stick_right"]
  /\ stick = [v |-> 0, h |-> -1]

\* The compass table of the specification, by <<h, v>>.
CompassTable(h, v) ==
  CASE h = 0 /\ v = -1 -> "North"
    [] h = 1 /\ v = -1 -> "NorthEast"
    [] h = 1 /\ v = 0 -> "East"
    [] h = 1 /\ v = 1 -> "SouthEast"
    [] h = 0 /\ v = 1 -> "South"
    [] h = -1 /\ v = 1 -> "SouthWest"
    [] h = -1 /\ v = 0 -> "West"
    [] h = -1 /\ v = -1 -> "NorthWest"
    [] h = 0 /\ v = 0 -> "Neutral"

\* C8: compass mapping exactness: in digital-pad mode the dpad output is the
\* table's entry for the cycle's intent (h, v).
C8_CompassExact ==
  (polled /\ output_mode = "mode_dpad")
    => /\ stick.h \in {-1, 0, 1} /\ stick.v \in {-1, 0, 1}
       /\ out.dpad = CompassTable(stick.h, stick.v)

\* C8 witness: right and up asserted in digital-pad mode give NorthEast.
C8_Witness ==
  /\ polled
  /\ output_mode = "mode_dpad"
  /\ stick = [v |-> -1, h |-> 1]
  /\ out.dpad = "NorthEast"

\* The axis values of the specification: 0x00, 0x80, 0xFF.
AxisTable(sign) == CASE sign = -1 -> 0 [] sign = 0 -> 128 [] sign = 1 -> 255

\* C9: axis scaling exactness: in left-stick mode the left stick's X is the
\* scaled horizontal intent and its Y the scaled vertical intent, in
\* right-stick mode the same holds of the right stick.
C9_AxisScaling ==
  polled =>
    /\ output_mode = "mode_ls"
         => /\ out.left_stick_x = AxisTable(stick.h)
            /\ out.left_stick_y = AxisTable(stick.v)
    /\ output_mode = "mode_rs"
         => /\ out.right_stick_x = AxisTable(stick.h)
            /\ out.right_stick_y = AxisTable(stick.v)

\* C9 witness: right-stick mode with left and down asserted: X 0x00, Y 0xFF.
C9_Witness ==
  /\ polled
  /\ output_mode = "mode_rs"
  /\ stick = [v |-> 1, h |-> -1]
  /\ out.right_stick_x = 0
  /\ out.right_stick_y = 255

\* C10: mode exclusivity: in every poll output only the representation of
\* the selected mode may differ from neutral: in digital-pad mode both sticks
\* are (0x80, 0x80), in left-stick mode dpad is Neutral and the right stick
\* (0x80, 0x80), in right-stick mode dpad is Neutral and the left stick
\* (0x80, 0x80).
C10_ModeExclusive ==
  polled =>
    /\ output_mode \in { "mode_dpad", "mode_ls", "mode_rs" }
    /\ output_mode # "mode_dpad" => out.dpad = "Neutral"
    /\ output_mode # "mode_ls"
         => out.left_stick_x = 128 /\ out.left_stick_y = 128
    /\ output_mode # "mode_rs"
         => out.right_stick_x = 128 /\ out.right_stick_y = 128

\* C10 witness: mode_rs and left asserted: the right stick is (0x00, 0x80),
\* dpad Neutral and the left stick (0x80, 0x80).
C10_Witness ==
  /\ polled
  /\ in_deb["mode_rs"] /\ in_deb["stick_left"]
  /\ output_mode = "mode_rs"
  /\ out.right_stick_x = 0 /\ out.right_stick_y = 128
  /\ out.dpad = "Neutral"
  /\ out.left_stick_x = 128 /\ out.left_stick_y = 128

(***************************************************************************)
(* Claims about the lock gate, checked under SpecLock.                     *)
(***************************************************************************)

\* C11: every call of input_set_locked, by a poll or by tooling, notifies the
\* display exactly once and with the new value when its argument differs from
\* the Lock State it finds, and not at all when it repeats it; after the call
\* the Lock State is the argument; the value the display was last notified
\* of is the Lock State (which is still the initial false when the display
\* was never notified).
C11_NotifyOnTransitionsOnly ==
  /\ last_op.fed =>
       /\ last_op.calls = (IF last_op.arg # last_op.before THEN 1 ELSE 0)
       /\ input_locked = last_op.arg
       /\ last_op.calls > 0 => display = << last_op.arg >>
  /\ display = << >> => input_locked = FALSE
  /\ display # << >> => display[1] = input_locked

\* C11 witness: a call that repeated the Lock State after the display had been
\* notified of it, so the call notified nothing.
C11_Witness ==
  /\ last_op.fed /\ last_op.arg = last_op.before /\ last_op.calls = 0
  /\ display = << TRUE >> /\ input_locked

\* C12: in a build without a mode-lock line a poll leaves the Lock State and
\* the display as it finds them, so a lock set by input_set_locked(true)
\* persists across polls.
C12_PollKeepsLockWithoutLine ==
  [][(~lock_line /\ last_op'.kind = "poll")
       => (input_locked' = input_locked /\ display' = display)]_vars

\* C12 witness: in a build without a mode-lock line, a poll that ran while
\* locked and read the mode-lock position deasserted, and left the lock set.
C12_Witness ==
  /\ ~lock_line /\ last_op.kind = "poll" /\ last_op.before
  /\ ~in_deb["mode_lock"] /\ input_locked /\ display = << TRUE >>

\* C20 as stated: in a build with a mode-lock line, a poll whose debounced
\* mode-lock value is the one of the previous poll leaves the Lock State and
\* the display unchanged, whatever calls of input_set_locked ran in between.
C20_MutatedOnlyOnLineChange ==
  [][(lock_line /\ polled /\ last_op'.kind = "poll"
        /\ in_deb'["mode_lock"] = in_deb["mode_lock"])
       => (input_locked' = input_locked /\ display' = display)]_vars

\* C20 amended: in a build with a mode-lock line every poll sets the Lock State
\* to the debounced mode-lock value of that poll; a poll whose debounced value
\* equals the Lock State it finds leaves the Lock State and the display
\* unchanged.
C20_LockFollowsLine ==
  [][(lock_line /\ last_op'.kind = "poll")
       => /\ input_locked' = in_deb'["mode_lock"]
          /\ in_deb'["mode_lock"] = input_locked
               => (input_locked' = input_locked /\ display' = display)]_vars

\* C20 witness: a poll that found the lock set by tooling while the mode-lock
\* line had never changed, and cleared it and notified the display.
C20_Witness ==
  /\ lock_line /\ last_op.kind = "poll" /\ last_op.before
  /\ button_history["mode_lock"] = [state |-> FALSE, tick |-> 0]
  /\ ~input_locked /\ display = << FALSE >>

(***************************************************************************)
(* Claims about the raw state reader, checked under SpecRaw and SpecRace.  *)
(***************************************************************************)

\* C13: when input_set_raw_state is called from another execution context
\* than the poll, the held snapshot a poll reads is a whole snapshot passed to
\* input_set_raw_state (the one of the last call or of the call before it,
\* or the initial one), never a mix of two of them.
C13_SnapshotNeverTorn ==
  (raw_read.kind = "poll" /\ raw_read.source = "held")
    => raw_read.raw \in { raw_read.prev_set, raw_read.last_set }

\* C14: a batched read that reports a fault during a poll halts the process:
\* the poll reaches PANIC, returns no state and leaves the Button History,
\* the Lock State and the display as they were before the cycle, and no
\* operation runs after it.
C14_ReadFaultIsFatal ==
  [][/\ panic = "none"
     /\ (raw_read'.kind = "poll"
          /\ \E i \in 0..(gpio_device_count - 1) :
               raw_read'.reads[i] > 0 /\ gpio_devices[i] \in raw_read'.failing)
         => /\ panic' = "failed to get gpio values"
            /\ UNCHANGED << button_history, input_locked, display, out, polled,
                            in_deb >>]_vars

\* C14 witness: the process halted by a read fault of the second port after
\* earlier polls had changed the Button History.
C14_Witness ==
  /\ panic = "failed to get gpio values"
  /\ raw_read.reads = [i \in 0..(GPIO_PORT_COUNT - 1) |-> IF i <= 1 THEN 1 ELSE 0]
  /\ \E l \in Lines : button_history[l].state

\* C17: a snapshot provided by the input queue for the cycle is the raw
\* snapshot of the cycle and no port is read; otherwise an external build uses
\* the snapshot most recently passed to input_set_raw_state, and a physical
\* build reads every cached port exactly once and takes each line's bit of
\* its port, inverted for the active-low lines; the snapshot is the one the
\* cycle debounces (a line whose history is the initial one follows it once
\* MIN_DWELL_TICKS have passed).
C17_SourcePriority ==
  raw_read.kind = "poll" =>
    /\ raw_read.queued # << >> =>
         (raw_read.raw = raw_read.queued[1] /\ raw_read.reads = NoReads)
    /\ (raw_read.queued = << >> /\ build = "external") =>
         (raw_read.raw = raw_read.last_set /\ raw_read.reads = NoReads)
    /\ (raw_read.queued = << >> /\ build = "gpio" /\ raw_read.failing = {}) =>
         /\ raw_read.reads = [i \in 0..(GPIO_PORT_COUNT - 1) |->
                                IF i < gpio_device_count THEN 1 ELSE 0]
         /\ \A l \in Lines :
              raw_read.raw[l] =
                IF PL_GPIO_ACTIVE_LOW[l]
                  THEN PL_GPIO_PIN[l] \notin PortWord(PL_GPIO_LABEL[l], raw_read.E)
                  ELSE PL_GPIO_PIN[l] \in PortWord(PL_GPIO_LABEL[l], raw_read.E)
    /\ (panic = "none" /\ now >= MIN_DWELL_TICKS) =>
         \A l \in Lines : button_history[l].tick = 0 => in_deb[l] = raw_read.raw[l]

\* C17 witness: in a physical build with the input queue, a poll that was
\* given a snapshot by the queue, read no port and accepted the snapshot.
C17_Witness ==
  /\ build = "gpio" /\ raw_read.kind = "poll"
  /\ raw_read.queued = << RawOf({ "stick_up" }) >>
  /\ raw_read.raw = RawOf({ "stick_up" }) /\ raw_read.reads = NoReads
  /\ in_deb = RawOf({ "stick_up" })

(***************************************************************************)
(* Claims about the tick arithmetic, checked under SpecWrap.               *)
(***************************************************************************)
\* The time since boot at which the history of line l was last written, for a
\* line whose accepted value has changed.
HistoryTime(l) == last_change[l]

\* The accepted value of l has changed, and the counter has wrapped between
\* that write of its history and the time t.
Overflowed(l, t) ==
  /\ last_change[l] # -1
  /\ t \div TickModulus > HistoryTime(l) \div TickModulus

\* C15 as stated: when the tick counter has overflowed between history.tick
\* and the tick of the poll, a transition is rejected exactly when fewer than
\* MIN_DWELL_TICKS ticks have truly elapsed, and accepted otherwise.
C15_ExactAcrossOverflow ==
  [][\A l \in Lines :
       (Overflowed(l, uptime') /\ raw_val'[l] # button_history[l].state)
         => ((in_deb'[l] = raw_val'[l])
               <=> (uptime' - HistoryTime(l) >= MIN_DWELL_TICKS))]_vars

\* C15 amended: the same, for fewer than 2^w elapsed ticks (w the width of the
\* counter); the duration the filter computes is the elapsed time modulo 2^w.
C15_ExactWithinOnePeriod ==
  [][\A l \in Lines :
       (/\ Overflowed(l, uptime')
        /\ uptime' - HistoryTime(l) < TickModulus
        /\ raw_val'[l] # button_history[l].state)
         => /\ TickSub(k_uptime_ticks(uptime'), button_history[l].tick)
                = uptime' - HistoryTime(l)
            /\ (in_deb'[l] = raw_val'[l])
                 <=> (uptime' - HistoryTime(l) >= MIN_DWELL_TICKS)]_vars

\* C15 witness: a release accepted just after the counter wrapped, the press
\* having been accepted before it wrapped: history.tick is smaller than the
\* one it replaced.
C15_Witness ==
  \E l \in Lines :
    /\ uptime \in TickModulus..(TickModulus + MIN_DWELL_TICKS - 1)
    /\ last_change[l] = uptime /\ ~in_deb[l]
    /\ button_history[l] = [state |-> FALSE, tick |-> uptime - TickModulus]

(***************************************************************************)
(* Claims about the pipeline over several lines, checked under SpecPair.   *)
(***************************************************************************)

\* C16: a poll at a tick at which the history of every line is stable (written
\* MIN_DWELL_TICKS or more before) reflects the raw snapshot in the same
\* cycle: every debounced value is the raw one, the plain buttons are the raw
\* ones, and a raw snapshot of up and right alone gives the pad direction
\* NorthEast with both sticks at (0x80, 0x80).
C16_NoLagWhenStable ==
  [][(\A l \in Lines : now' - button_history[l].tick >= MIN_DWELL_TICKS)
       => /\ in_deb' = raw_val'
          /\ \A b \in PlainButtons : out'.buttons[b] = raw_val'[b]
          /\ raw_val' = RawOf({ "stick_up", "stick_right" })
               => /\ out'.dpad = "NorthEast"
                  /\ out'.left_stick_x = 128 /\ out'.left_stick_y = 128
                  /\ out'.right_stick_x = 128 /\ out'.right_stick_y = 128]_vars

\* C16 witness: up and right pressed together, both accepted by the poll that
\* first saw them, after an earlier press and release of both.
C16_Witness ==
  /\ raw_val = RawOf({ "stick_up", "stick_right" })
  /\ now = 2 * MIN_DWELL_TICKS
  /\ last_change["stick_up"] = now /\ last_change["stick_right"] = now
  /\ out.dpad = "NorthEast"

\* C19: a poll writes the history of a line only when it accepts a transition
\* of that line: when the raw value is the accepted one, or differs from it
\* less than MIN_DWELL_TICKS after the history was written, history.state and
\* history.tick are unchanged and the debounced value is history.state; an
\* accepted transition writes the raw value and the tick of the poll.  This
\* holds for every line whatever the other lines do in the same poll.
C19_HistoryWrittenOnAcceptOnly ==
  [][\A l \in Lines :
       IF \/ raw_val'[l] = button_history[l].state
          \/ now' - button_history[l].tick < MIN_DWELL_TICKS
         THEN /\ button_history'[l] = button_history[l]
              /\ in_deb'[l] = button_history[l].state
         ELSE /\ button_history'[l] = [state |-> raw_val'[l], tick |-> now']
              /\ in_deb'[l] = raw_val'[l]]_vars

\* C19 witness: one poll accepted a transition of one line and rejected a
\* transition of another line, whose history still holds an earlier tick.
C19_Witness ==
  \E l1 \in focus, l2 \in focus :
    /\ l1 # l2
    /\ raw_val[l1] # in_deb[l1] /\ last_change[l1] \notin { -1, now }
    /\ button_history[l1].tick = last_change[l1]
    /\ last_change[l2] = now /\ button_history[l2].tick = now /\ now > 0

(***************************************************************************)
(* Claim about the selection of the output mode, checked under SpecParse.  *)
(***************************************************************************)

\* C18: the output mode of a cycle is the first mode-select line, in the
\* order of declaration, whose debounced value is asserted in that cycle, and
\* the digital pad exactly when none is asserted; it is a function of the
\* debounced values of the cycle alone, not of the mode of earlier cycles.
C18_FirstAssertedModeWins ==
  polled =>
    LET hits == { i \in 1..Len(PL_GPIO_OUTPUT_MODES) :
                    in_deb[PL_GPIO_OUTPUT_MODES[i]] }
    IN output_mode = IF hits = {} THEN "mode_dpad"
                     ELSE PL_GPIO_OUTPUT_MODES[MinOf(hits)]

\* C18 witness: both mode-select lines asserted and accepted, and the first
\* declared one selected.
C18_Witness ==
  /\ polled /\ in_deb["mode_ls"] /\ in_deb["mode_rs"]
  /\ output_mode = PL_GPIO_OUTPUT_MODES[1]

====
